---- MODULE Spec2Model ----
(***************************************************************************)
(* A model of ircparser::parse (src/src/lib.rs) and of the Line record it  *)
(* builds (src/src/line.rs).                                               *)
(*                                                                         *)
(* A Rust &str is modelled as its sequence of UTF-8 bytes.  An ASCII       *)
(* character is one byte, written as the one-character string; the         *)
(* two-byte character U+00E9 is the lead byte "C3" followed by the         *)
(* continuation byte "A9".  Indices are Rust's: 0-based byte offsets, so   *)
(* the byte at offset k of s is s[k + 1].                                  *)
(***************************************************************************)
EXTENDS Integers, Sequences, FiniteSets, TLC

VARIABLES text, lines, li, line, idx, tags, source, command, c_idx, params,
          parsed_lines, pc, result

vars == <<text, lines, li, line, idx, tags, source, command, c_idx, params,
          parsed_lines, pc, result>>

(***************************************************************************)
(* Bounds of the input generator.                                          *)
(***************************************************************************)
MaxTags == 2
MaxMiddle == 1
MaxLines == 3

(***************************************************************************)
(* Strings and the std operations parse uses on them.                      *)
(***************************************************************************)
NoIndex == -1

ContinuationBytes == {"A9"}

E9 == <<"C3", "A9">>

\* str::len: the number of bytes.
StrLen(s) == Len(s)

\* str::is_char_boundary, the test every range index s[a..b] makes.
IsCharBoundary(s, i) ==
    \/ i = 0
    \/ i = Len(s)
    \/ /\ 0 < i
       /\ i < Len(s)
       /\ s[i + 1] \notin ContinuationBytes

\* Whether s[a..b] is a legal slice; an illegal one panics.
SliceOk(s, a, b) ==
    /\ 0 <= a
    /\ a <= b
    /\ b <= Len(s)
    /\ IsCharBoundary(s, a)
    /\ IsCharBoundary(s, b)

\* s[a..b], bytes a (included) to b (excluded).
Slice(s, a, b) == SubSeq(s, a + 1, b)

\* str::replace('\r', ""): every carriage return is dropped.
RemoveCr(s) == SelectSeq(s, LAMBDA b : b # "\r")

\* str::find(c): the byte offset of the first c, or NoIndex.
Find(s, c) ==
    IF \E k \in 1..Len(s) : s[k] = c
    THEN (CHOOSE k \in 1..Len(s) :
              /\ s[k] = c
              /\ \A j \in 1..(k - 1) : s[j] # c) - 1
    ELSE NoIndex

\* str::split(d): the pieces between the occurrences of d; the empty string
\* splits into one empty piece.
RECURSIVE Split(_, _)
Split(s, d) ==
    LET k == Find(s, d)
    IN  IF k = NoIndex
        THEN <<s>>
        ELSE <<Slice(s, 0, k)>> \o Split(Slice(s, k + 1, Len(s)), d)

\* str::starts_with(c)
StartsWith(s, c) == Len(s) > 0 /\ s[1] = c

\* The lead bytes of s in order: one per character.
Chars(s) == SelectSeq(s, LAMBDA b : b \notin ContinuationBytes)

\* s.chars().nth(n): the n-th CHARACTER (not byte) of s, <<>> when s has
\* fewer than n + 1 characters, else <<lead byte>>.
CharsNth(s, n) ==
    IF n < Len(Chars(s)) THEN <<Chars(s)[n + 1]>> ELSE <<>>

\* find_index with the comparison k >= start: an occurrence at start itself
\* is found.
FindIndexOff(t, c, start) ==
    IF \E k \in 0..(Len(t) - 1) : t[k + 1] = c /\ k >= start
    THEN CHOOSE k \in 0..(Len(t) - 1) :
             /\ t[k + 1] = c
             /\ k >= start
             /\ \A j \in 0..(k - 1) : ~(t[j + 1] = c /\ j >= start)
    ELSE NoIndex

\* find_index(text, char, start): the offset of the first occurrence of char
\* strictly after start (k > start), or NoIndex.
find_index(t, c, start) ==
    IF \E k \in 0..(Len(t) - 1) : t[k + 1] = c /\ k > start
    THEN CHOOSE k \in 0..(Len(t) - 1) :
             /\ t[k + 1] = c
             /\ k > start
             /\ \A j \in 0..(k - 1) : ~(t[j + 1] = c /\ j > start)
    ELSE NoIndex

(***************************************************************************)
(* Values: HashMap, Option, Line, ParseResult.                             *)
(***************************************************************************)
\* HashMap::new()
EmptyMap == [k \in {} |-> <<>>]

\* HashMap::insert: a later insert of the same key overwrites.
Insert(m, k, v) == [x \in (DOMAIN m) \cup {k} |-> IF x = k THEN v ELSE m[x]]

\* Option<String>: None is <<>>, Some(s) is <<s>>.
None == <<>>

Some(s) == <<s>>

\* Line::new
NewLine(t, s, c, p) == [tags |-> t, source |-> s, command |-> c, params |-> p]

EmptyLineDetails == "line length cannot be 0"

NotReturned == [kind |-> "Running", details |-> "", value |-> <<>>]

Ok(v) == [kind |-> "Ok", details |-> "", value |-> v]

Err(d) == [kind |-> "Err", details |-> d, value |-> <<>>]

\* A failed unwrap, an index out of bounds or a slice off a character
\* boundary: the thread panics and parse returns nothing.
Panic == [kind |-> "Panic", details |-> "", value |-> <<>>]

\* The tag loop's body: kv = part.split('='); insert kv[0] -> kv[1].
TagKey(part) == Split(part, "=")[1]

TagValue(part) == Split(part, "=")[2]

TagEntryOk(part) == Len(Split(part, "=")) >= 2

RECURSIVE InsertTags(_, _)
InsertTags(parts, m) ==
    IF parts = <<>>
    THEN m
    ELSE InsertTags(Tail(parts),
                    Insert(m, TagKey(Head(parts)), TagValue(Head(parts))))

(***************************************************************************)
(* parse, one action per step of its body.  The locals of the loop body    *)
(* (line, idx, tags, source, command, c_idx, params) are state; pc is the  *)
(* position in the body.                                                   *)
(***************************************************************************)
Returns(r) ==
    /\ pc' = "done"
    /\ result' = r

\* text.replace('\r', "").split('\n'), evaluated once as the loop starts.
SplitLines ==
    /\ pc = "start"
    /\ lines' = Split(RemoveCr(text), "\n")
    /\ pc' = "loop"
    /\ UNCHANGED <<text, li, line, idx, tags, source, command, c_idx, params,
                   parsed_lines, result>>

\* An empty candidate line skipped instead of rejected.
SkipEmptyLine ==
    /\ pc = "loop"
    /\ li < Len(lines)
    /\ lines[li + 1] = <<>>
    /\ li' = li + 1
    /\ UNCHANGED <<text, lines, line, idx, tags, source, command, c_idx,
                   params, parsed_lines, pc, result>>

\* if line.is_empty() { return Err(..) }
EmptyLine ==
    /\ pc = "loop"
    /\ li < Len(lines)
    /\ lines[li + 1] = <<>>
    /\ Returns(Err(EmptyLineDetails))
    /\ UNCHANGED <<text, lines, li, line, idx, tags, source, command, c_idx,
                   params, parsed_lines>>

\* The loop body's locals kept from the line before.
BeginLineKeepLocals ==
    /\ pc = "loop"
    /\ li < Len(lines)
    /\ lines[li + 1] # <<>>
    /\ line' = lines[li + 1]
    /\ idx' = 0
    /\ pc' = "tags"
    /\ UNCHANGED <<text, lines, li, tags, source, command, c_idx, params,
                   parsed_lines, result>>

\* The next candidate line, with idx, tags and source declared afresh.
BeginLine ==
    /\ pc = "loop"
    /\ li < Len(lines)
    /\ lines[li + 1] # <<>>
    /\ line' = lines[li + 1]
    /\ idx' = 0
    /\ tags' = EmptyMap
    /\ source' = None
    /\ pc' = "tags"
    /\ UNCHANGED <<text, lines, li, command, c_idx, params, parsed_lines,
                   result>>

\* Parse tags component: the cursor and the tags after it, from the line, the
\* cursor i and the tags m before it; ok is FALSE where the code panics
\* (find(' ').unwrap() on None, kv[1] out of bounds).
TagsStep(l, i, m) ==
    IF StartsWith(l, "@")
    THEN LET sp == Find(l, " ")
             parts == Split(Slice(l, 1, sp), ";")
         IN  IF sp = NoIndex
             THEN [ok |-> FALSE, idx |-> i, tags |-> m]
             ELSE IF \E k \in 1..Len(parts) : ~TagEntryOk(parts[k])
             THEN [ok |-> FALSE, idx |-> i, tags |-> m]
             ELSE [ok |-> TRUE, idx |-> sp + 1, tags |-> InsertTags(parts, m)]
    ELSE [ok |-> TRUE, idx |-> i, tags |-> m]

ParseTags ==
    /\ pc = "tags"
    /\ LET r == TagsStep(line, idx, tags)
       IN  IF r.ok
           THEN /\ idx' = r.idx
                /\ tags' = r.tags
                /\ pc' = "source"
                /\ UNCHANGED result
           ELSE /\ Returns(Panic)
                /\ UNCHANGED <<idx, tags>>
    /\ UNCHANGED <<text, lines, li, line, source, command, c_idx, params,
                   parsed_lines>>

\* Parse source component; ok is FALSE where the code panics (chars().nth(idx)
\* is None, find_index is None).
SourceStep(l, i, s) ==
    LET ch == CharsNth(l, i)
        end_idx == find_index(l, " ", i)
    IN  IF ch = <<>>
        THEN [ok |-> FALSE, idx |-> i, source |-> s]
        ELSE IF ch[1] = ":"
        THEN IF end_idx = NoIndex \/ ~SliceOk(l, i, end_idx)
             THEN [ok |-> FALSE, idx |-> i, source |-> s]
             ELSE [ok |-> TRUE, idx |-> end_idx + 1,
                   source |-> Some(Slice(l, i, end_idx))]
        ELSE [ok |-> TRUE, idx |-> i, source |-> s]

ParseSource ==
    /\ pc = "source"
    /\ LET r == SourceStep(line, idx, source)
       IN  IF r.ok
           THEN /\ idx' = r.idx
                /\ source' = r.source
                /\ pc' = "command"
                /\ UNCHANGED result
           ELSE /\ Returns(Panic)
                /\ UNCHANGED <<idx, source>>
    /\ UNCHANGED <<text, lines, li, line, tags, command, c_idx, params,
                   parsed_lines>>

\* Parse command component; ok is FALSE where find_index(..).unwrap() panics.
CommandStep(l, i) ==
    LET end_idx == find_index(l, " ", i)
    IN  IF end_idx = NoIndex \/ ~SliceOk(l, i, end_idx)
        THEN [ok |-> FALSE, idx |-> i, command |-> <<>>]
        ELSE [ok |-> TRUE, idx |-> end_idx + 1,
              command |-> Slice(l, i, end_idx)]

ParseCommand ==
    /\ pc = "command"
    /\ LET r == CommandStep(line, idx)
       IN  IF r.ok
           THEN /\ idx' = r.idx
                /\ command' = r.command
                /\ pc' = "params"
                /\ UNCHANGED result
           ELSE /\ Returns(Panic)
                /\ UNCHANGED <<idx, command>>
    /\ UNCHANGED <<text, lines, li, line, tags, source, c_idx, params,
                   parsed_lines>>

\* let c_idx = match find_index(line, ':', idx) { Some(x) => x - 1, None => line.len() }
ColonIndex(l, i) ==
    LET x == find_index(l, ":", i)
    IN  IF x = NoIndex THEN StrLen(l) ELSE x - 1

\* Parse params component; ok is FALSE where a slice is off a character
\* boundary.
ParamsStep(l, i) ==
    LET c == ColonIndex(l, i)
    IN  IF ~SliceOk(l, i, c)
        THEN [ok |-> FALSE, c_idx |-> c, params |-> <<>>]
        ELSE IF c # StrLen(l)
        THEN IF ~SliceOk(l, c + 2, StrLen(l))
             THEN [ok |-> FALSE, c_idx |-> c, params |-> <<>>]
             ELSE [ok |-> TRUE, c_idx |-> c,
                   params |-> Append(Split(Slice(l, i, c), " "),
                                     Slice(l, c + 2, StrLen(l)))]
        ELSE [ok |-> TRUE, c_idx |-> c, params |-> Split(Slice(l, i, c), " ")]

ParseParams ==
    /\ pc = "params"
    /\ LET r == ParamsStep(line, idx)
       IN  /\ c_idx' = r.c_idx
           /\ IF r.ok
              THEN /\ params' = r.params
                   /\ pc' = "push"
                   /\ UNCHANGED result
              ELSE /\ Returns(Panic)
                   /\ UNCHANGED params
    /\ UNCHANGED <<text, lines, li, line, idx, tags, source, command,
                   parsed_lines>>

\* parsed_lines.push_back(Line::new(tags, source, command, params))
PushLine ==
    /\ pc = "push"
    /\ parsed_lines' = Append(parsed_lines,
                              NewLine(tags, source, command, params))
    /\ li' = li + 1
    /\ pc' = "loop"
    /\ UNCHANGED <<text, lines, line, idx, tags, source, command, c_idx,
                   params, result>>

\* Ok(parsed_lines)
ReturnOk ==
    /\ pc = "loop"
    /\ li = Len(lines)
    /\ Returns(Ok(parsed_lines))
    /\ UNCHANGED <<text, lines, li, line, idx, tags, source, command, c_idx,
                   params, parsed_lines>>

\* One pass of the loop body over a non-empty line l on its own: <<the Line
\* pushed>>, or <<>> where the body panics.
ParseLine(l) ==
    LET t == TagsStep(l, 0, EmptyMap)
        s == SourceStep(l, t.idx, None)
        c == CommandStep(l, s.idx)
        p == ParamsStep(l, c.idx)
    IN  IF t.ok /\ s.ok /\ c.ok /\ p.ok
        THEN <<NewLine(t.tags, s.source, c.command, p.params)>>
        ELSE <<>>

Next ==
    \/ SplitLines
    \/ EmptyLine
    \/ BeginLine
    \/ ParseTags
    \/ ParseSource
    \/ ParseCommand
    \/ ParseParams
    \/ PushLine
    \/ ReturnOk

(***************************************************************************)
(* Inputs.  A line is put together from a tags segment, a source segment,  *)
(* a command token and the text after it, each drawn from a small set that *)
(* holds well-formed and malformed pieces.                                 *)
(***************************************************************************)
RECURSIVE Join(_, _)
Join(pieces, sep) ==
    IF pieces = <<>>
    THEN <<>>
    ELSE IF Len(pieces) = 1
    THEN pieces[1]
    ELSE pieces[1] \o sep \o Join(Tail(pieces), sep)

SeqsUpTo(S, n) == UNION {[1..k -> S] : k \in 0..n}

TagEntries ==
    { <<"a", "=", "b">>,
      <<"a", "=", "c", "=", "d">>,
      <<"=", "v">>,
      <<"a">>,
      <<"e", "=">> \o E9 }

TagsSegments ==
    {<<>>} \cup
    { <<"@">> \o Join(es, <<";">>) \o t :
          es \in SeqsUpTo(TagEntries, MaxTags) \ {<<>>}, t \in {<<>>, <<" ">>} }

SourceSegments ==
    { <<>>, <<":", "s", " ">>, <<":", "s">>, <<":">> \o E9 \o <<" ">> }

CommandTokens == { <<"C">>, <<>> }

Middles == { <<"x">>, <<>>, <<"x", ":", "y">>, E9 \o <<":", "y">> }

Trailings == { <<":", "t", " ", ":", "u">>, <<":">> }

\* The text after the command token: nothing, or a space and then the middle
\* parameters and the trailing parameter, single-space separated.
Rests ==
    {<<>>} \cup
    { <<" ">> \o Join(ms \o <<tr>>, <<" ">>) :
          ms \in SeqsUpTo(Middles, MaxMiddle), tr \in Trailings } \cup
    { <<" ">> \o Join(ms, <<" ">>) : ms \in SeqsUpTo(Middles, MaxMiddle) }

LineInputs ==
    { t \o s \o c \o r :
          t \in TagsSegments, s \in SourceSegments,
          c \in CommandTokens, r \in Rests }

\* Lines of a multi-line text: the empty line, lines that parse (one with a
\* carriage return inside, one with a two-byte character in its tags) and
\* lines on which the loop body panics.
LinePool ==
    { <<>>,
      <<"C", " ", "x">>,
      <<"@", "a", "=", "b", " ", "C", " ", "x">>,
      <<":", "s", " ", "C", " ", "x", " ", ":", "t">>,
      <<"@", "b", "=", "c", " ", ":", "s", " ", "D", "\r", " ", "y">>,
      <<"@", "e", "=">> \o E9 \o <<" ", ":", "s", " ", "C", " ", "x">>,
      <<"C">>,
      <<"@", "a", " ", "C", " ", "x">> }

TextInputs ==
    { Join(ls, sep) :
          ls \in SeqsUpTo(LinePool, MaxLines) \ {<<>>},
          sep \in {<<"\n">>, <<"\r", "\n">>} }

InitLocals ==
    /\ lines = <<>>
    /\ li = 0
    /\ line = <<>>
    /\ idx = 0
    /\ tags = EmptyMap
    /\ source = None
    /\ command = <<>>
    /\ c_idx = 0
    /\ params = <<>>
    /\ parsed_lines = <<>>
    /\ pc = "start"
    /\ result = NotReturned

Init ==
    /\ text \in LineInputs
    /\ InitLocals

InitText ==
    /\ text \in TextInputs
    /\ InitLocals

Spec == Init /\ [][Next]_vars

SpecText == InitText /\ [][Next]_vars

(***************************************************************************)
(* What the specification says of a line, read off the line itself:        *)
(* [@tags ][:source ]COMMAND[ params][ :trailing].  Offsets are byte       *)
(* offsets; every delimiter is ASCII.                                      *)
(***************************************************************************)
Returned == pc = "done"

ReturnedOk == pc = "done" /\ result.kind = "Ok"

\* The single Line of a successful one-line parse.
OneLine == Len(lines) = 1 /\ ReturnedOk

TheLine == result.value[1]

\* The offset of the first c at or after offset from, Len(l) when none.
RefNext(l, c, from) ==
    IF \E k \in from..(Len(l) - 1) : l[k + 1] = c
    THEN CHOOSE k \in from..(Len(l) - 1) :
             /\ l[k + 1] = c
             /\ \A j \in from..(k - 1) : l[j + 1] # c
    ELSE Len(l)

RefHasTags(l) == Len(l) > 0 /\ l[1] = "@"

RefTagsTerminated(l) == RefHasTags(l) /\ RefNext(l, " ", 0) < Len(l)

RefTagsPayload(l) == SubSeq(l, 2, RefNext(l, " ", 0))

RefEntries(l) == Split(RefTagsPayload(l), ";")

RefHasEq(e) == RefNext(e, "=", 0) < Len(e)

RefKey(e) == SubSeq(e, 1, RefNext(e, "=", 0))

RefValue(e) == SubSeq(e, RefNext(e, "=", 0) + 2, Len(e))

RefLastWith(es, k) ==
    CHOOSE i \in 1..Len(es) :
        /\ RefKey(es[i]) = k
        /\ \A j \in (i + 1)..Len(es) : RefKey(es[j]) # k

RefTags(l) ==
    IF RefHasTags(l)
    THEN [k \in {RefKey(RefEntries(l)[i]) : i \in 1..Len(RefEntries(l))} |->
             RefValue(RefEntries(l)[RefLastWith(RefEntries(l), k)])]
    ELSE EmptyMap

\* Where the source segment, or else the command, starts.
RefSourceStart(l) == IF RefHasTags(l) THEN RefNext(l, " ", 0) + 1 ELSE 0

RefHasSource(l) ==
    /\ RefSourceStart(l) < Len(l)
    /\ l[RefSourceStart(l) + 1] = ":"

RefSourceEnd(l) == RefNext(l, " ", RefSourceStart(l))

RefSource(l) == SubSeq(l, RefSourceStart(l) + 1, RefSourceEnd(l))

RefCommandStart(l) ==
    IF RefHasSource(l) THEN RefSourceEnd(l) + 1 ELSE RefSourceStart(l)

RefCommandTerminated(l) == RefNext(l, " ", RefCommandStart(l)) < Len(l)

\* A valid line: a tags segment, when there is one, ends at a space and each
\* of its entries has an '='; a source segment, when there is one, ends at a
\* space; the command token is not empty and ends at a space.
RefValid(l) ==
    /\ RefHasTags(l) =>
           /\ RefTagsTerminated(l)
           /\ \A i \in 1..Len(RefEntries(l)) : RefHasEq(RefEntries(l)[i])
    /\ RefHasSource(l) => RefSourceEnd(l) < Len(l)
    /\ RefCommandStart(l) < Len(l)
    /\ l[RefCommandStart(l) + 1] # " "
    /\ RefCommandTerminated(l)

\* The offset of the first " :" of l at or after offset from, Len(l) when none.
RefTrailingAt(l, from) ==
    IF \E k \in from..(Len(l) - 2) : l[k + 1] = " " /\ l[k + 2] = ":"
    THEN CHOOSE k \in from..(Len(l) - 2) :
             /\ l[k + 1] = " " /\ l[k + 2] = ":"
             /\ \A j \in from..(k - 1) : ~(l[j + 1] = " " /\ l[j + 2] = ":")
    ELSE Len(l)

Last(q) == q[Len(q)]

Front(q) == SubSeq(q, 1, Len(q) - 1)

(***************************************************************************)
(* The claims.                                                             *)
(***************************************************************************)

\* C1: for every input parse returns Ok or Err and never crashes; a first
\* line whose tags segment has no following space, that has a tag entry
\* without '=', whose source segment has no space after it, or whose command
\* token has no space after it makes parse return Err.
C1_NeverCrashes ==
    Returned =>
        /\ result.kind \in {"Ok", "Err"}
        /\ LET l == lines[1]
           IN  \/ RefHasTags(l) /\ ~RefTagsTerminated(l)
               \/ /\ RefTagsTerminated(l)
                  /\ \E i \in 1..Len(RefEntries(l)) : ~RefHasEq(RefEntries(l)[i])
               \/ RefHasSource(l) /\ RefSourceEnd(l) = Len(l)
               \/ l # <<>> /\ ~RefCommandTerminated(l)
               => result.kind = "Err"

\* C2: when some candidate line is empty and every candidate line before it
\* parses on its own, parse returns Err with details "line length cannot be
\* 0" and none of the lines parsed before it.
C2_EmptyLineAborts ==
    ( /\ Returned
      /\ \E k \in 1..Len(lines) :
             /\ lines[k] = <<>>
             /\ \A j \in 1..(k - 1) : ParseLine(lines[j]) # <<>> )
    => /\ result.kind = "Err"
       /\ result.details = "line length cannot be 0"
       /\ result.value = <<>>

\* C2 witness: a text ending in a newline, its lines before the final blank
\* one parsed, and the error returned.
C2_Witness ==
    /\ Returned
    /\ result.kind = "Err"
    /\ Len(parsed_lines) >= 2
    /\ Last(text) = "\n"

\* C3: for N >= 1 lines that each parse on their own, joined by newlines,
\* parse returns Ok with exactly N Lines in input order, the i-th equal in
\* tags, source, command and params to the Line of the i-th line alone.
C3_LinesIndependent ==
    ( /\ Returned
      /\ \A i \in 1..Len(lines) : ParseLine(lines[i]) # <<>> )
    => /\ result.kind = "Ok"
       /\ Len(result.value) = Len(lines)
       /\ \A i \in 1..Len(lines) : result.value[i] = ParseLine(lines[i])[1]

\* C3 witness: three lines returned, the first with tags and a source none
\* of which the later ones have.
C3_Witness ==
    /\ ReturnedOk
    /\ Len(result.value) = 3
    /\ result.value[1].tags # EmptyMap
    /\ result.value[1].source # None
    /\ result.value[2].tags = EmptyMap
    /\ result.value[3].source = None
    /\ result.value[2] # result.value[3]

\* C4: on a successful parse of a valid line in which a space followed by ':'
\* comes after the command, the last element of params is the full text
\* after the first such ':', verbatim.
C4_TrailingVerbatim ==
    (OneLine /\ RefValid(line)) =>
        LET q == RefTrailingAt(line, idx - 1)
        IN  q < Len(line) =>
                /\ TheLine.params # <<>>
                /\ Last(TheLine.params) = SubSeq(line, q + 3, Len(line))

\* C5: on a successful parse of a valid line with a source segment, source is Some
\* of the substring from the leading ':' to the next space; of a line whose
\* first character after the optional tags segment is not ':', source is
\* None.
C5_SourceExact ==
    (OneLine /\ RefValid(line)) =>
        IF RefHasSource(line)
        THEN TheLine.source = Some(RefSource(line))
        ELSE TheLine.source = None

\* C6: on a successful parse of a valid line with a tags segment, tags has exactly
\* one entry per distinct key of the ';'-separated entries, key the text
\* before the entry's first '=', value all the text after that '=', the last
\* entry of a key winning; without a tags segment, tags is empty.
C6_TagsExact == (OneLine /\ RefValid(line)) => TheLine.tags = RefTags(line)

\* C7: no empty-string parameter is fabricated: when nothing follows the
\* command, params is empty; when only a trailing parameter follows
\* ("CMD :trailing"), params is that one parameter.
C7_NoSpuriousParam ==
    OneLine =>
        LET rest == SubSeq(line, idx + 1, Len(line))
        IN  /\ rest = <<>> => TheLine.params = <<>>
            /\ (rest # <<>> /\ rest[1] = ":") =>
                   TheLine.params = <<Tail(rest)>>

\* C8: in every Line of a successful parse, command is not the empty
\* string.
C8_CommandNonEmpty ==
    ReturnedOk => \A i \in 1..Len(result.value) : result.value[i].command # <<>>

\* C8 witness: a successful parse whose command scan started on a space.
C8_Witness ==
    /\ OneLine
    /\ line[idx - Len(command)] = " "
    /\ TheLine.command[1] = " "

\* C9: in every Line of a successful parse, no key of tags is the empty
\* string.
C9_NoEmptyTagKey ==
    ReturnedOk =>
        \A i \in 1..Len(result.value) : <<>> \notin DOMAIN result.value[i].tags

\* C10: on a successful parse that took a ':' at offset p as the trailing
\* delimiter, the character at p - 1 is a space, and the middle parameters
\* joined by single spaces, then " :" and the trailing parameter, give back
\* the text after the command.
C10_NothingLost ==
    (OneLine /\ c_idx # StrLen(line)) =>
        /\ line[c_idx + 1] = " "
        /\ Join(Front(TheLine.params), <<" ">>) \o <<" ", ":">>
               \o Last(TheLine.params)
           = SubSeq(line, idx + 1, Len(line))

====
